---- MODULE Spec2Model ----
(***************************************************************************)
(* Walmart Eco-Pack AI: the box-sizing and material-recommendation core    *)
(* (core_logic.py) and the page run that drives it (app.py).               *)
(*                                                                         *)
(* Numbers.  The tables hold exact integers.  Values the code derives with *)
(* a decimal factor are kept exact in a finer unit, stated where used:     *)
(*   - a fragility is the pair <<num, den>> standing for num/den (the page *)
(*     passes the mean of the selected fragility scores);                  *)
(*   - a cost tolerance factor is held in hundredths (120 is 1.2);         *)
(*   - the dimensions of a mock "current" box are held in tenths of a cm   *)
(*     and its volume in thousandths of a cubic cm;                        *)
(*   - a sustainability score is held multiplied by 200 * (max carbon      *)
(*     footprint of the table), which is one positive factor per table.    *)
(***************************************************************************)
EXTENDS Integers, Sequences, FiniteSets, TLC

VARIABLES PRODUCTS_DF, MATERIALS_DF, call, pc, selected_product_ids, cost_tolerance, page_locals, shown, raised

vars == <<PRODUCTS_DF, MATERIALS_DF, call, pc, selected_product_ids, cost_tolerance, page_locals, shown, raised>>

pagevars == <<pc, selected_product_ids, cost_tolerance, page_locals, shown, raised>>

(***************************************************************************)
(* Bounds of the model.                                                    *)
(***************************************************************************)
MaxProducts == 2

MaxMaterials == 3

MaxIds == 2

(***************************************************************************)
(* Rows the loaded tables are drawn from.                                  *)
(***************************************************************************)
ProductPool ==
  { [product_id |-> "P1", name |-> "Mug", length_cm |-> 10, width_cm |-> 10, height_cm |-> 10,
     weight_kg |-> 1, fragility_score |-> 3, current_packaging_material |-> "cardboard_standard"],
    [product_id |-> "P2", name |-> "Vase", length_cm |-> 20, width_cm |-> 5, height_cm |-> 30,
     weight_kg |-> 2, fragility_score |-> 5, current_packaging_material |-> "cardboard_recycled"] }

MaterialPool ==
  { [material_id |-> "cardboard_standard", name |-> "Standard Cardboard", strength_rating |-> 2,
     recycled_content_percent |-> 30, recyclability_score |-> 4, biodegradability_score |-> 4,
     carbon_footprint_per_unit_sqm |-> 5, cost_per_unit_area |-> 4],
    [material_id |-> "cardboard_recycled", name |-> "Recycled Cardboard", strength_rating |-> 3,
     recycled_content_percent |-> 90, recyclability_score |-> 5, biodegradability_score |-> 4,
     carbon_footprint_per_unit_sqm |-> 3, cost_per_unit_area |-> 5],
    [material_id |-> "molded_pulp", name |-> "Molded Pulp", strength_rating |-> 4,
     recycled_content_percent |-> 90, recyclability_score |-> 5, biodegradability_score |-> 4,
     carbon_footprint_per_unit_sqm |-> 3, cost_per_unit_area |-> 6],
    [material_id |-> "plastic_bubble", name |-> "Plastic Bubble Wrap", strength_rating |-> 5,
     recycled_content_percent |-> 0, recyclability_score |-> 1, biodegradability_score |-> 1,
     carbon_footprint_per_unit_sqm |-> 10, cost_per_unit_area |-> 3] }

ProductIds == {p.product_id : p \in ProductPool} \cup {"P9"}

Dims == {1, 10}

Buffers == {0, 1}

Fragilities == {<<n, 1>> : n \in 1..6} \cup {<<5, 2>>}

Tolerances == {90, 100, 120, 130, 150}

SliderTolerances == {100, 120, 130, 150}

(***************************************************************************)
(* Helpers over sequences and sets.                                        *)
(***************************************************************************)
Range(s) == {s[i] : i \in DOMAIN s}

Injective(s) == \A i, j \in DOMAIN s : s[i] = s[j] => i = j

SeqsUpTo(S, n) == UNION {[1..k -> S] : k \in 0..n}

Max(S) == CHOOSE x \in S : \A y \in S : y <= x

Min(S) == CHOOSE x \in S : \A y \in S : x <= y

RECURSIVE Sum(_)
Sum(s) == IF s = <<>> THEN 0 ELSE Head(s) + Sum(Tail(s))

Column(frame, c) == [i \in DOMAIN frame |-> frame[i][c]]

NoneVal == [kind |-> "None"]

IndexError == [kind |-> "raise", exc |-> "IndexError"]

NameError == [kind |-> "raise", exc |-> "NameError"]

Row(r) == [kind |-> "row", row |-> r]

Box(l, w, h, v) == [kind |-> "box", length |-> l, width |-> w, height |-> h, volume |-> v]

\* frame.iloc[0]: the first row, IndexError on an empty frame
iloc0(frame) == IF frame = <<>> THEN IndexError ELSE Row(frame[1])

\* frame[frame[column].isin(values)]: the rows whose column value is listed, in table order
isin(frame, column, values) ==
  LET Test(r) == r[column] \in Range(values) IN SelectSeq(frame, Test)

\* frame[frame[column] == value]
eq(frame, column, value) ==
  LET Test(r) == r[column] = value IN SelectSeq(frame, Test)

(***************************************************************************)
(* core_logic.py                                                           *)
(***************************************************************************)
\* variant: an absent id falls back to the first product of the table
get_product_data_default(product_id) ==
  LET found == eq(PRODUCTS_DF, "product_id", product_id)
  IN IF found = <<>> THEN iloc0(PRODUCTS_DF) ELSE iloc0(found)

get_product_data(product_id) == iloc0(eq(PRODUCTS_DF, "product_id", product_id))

\* variant: the volume is taken from the unbuffered dimensions
calculate_optimal_single_box_rawvol(length, width, height, buffer_cm) ==
  Box(length + buffer_cm, width + buffer_cm, height + buffer_cm, length * width * height)

calculate_optimal_single_box(length, width, height, buffer_cm) ==
  LET optimal_length == length + buffer_cm
      optimal_width == width + buffer_cm
      optimal_height == height + buffer_cm
      optimal_volume == optimal_length * optimal_width * optimal_height
  IN Box(optimal_length, optimal_width, optimal_height, optimal_volume)

buffer_cm_multi == 2

\* variant: the height is the tallest member, not the stack
calculate_approximate_multi_box_maxh(product_ids) ==
  LET selected_products == isin(PRODUCTS_DF, "product_id", product_ids)
      max_l == Max(Range(Column(selected_products, "length_cm")))
      max_w == Max(Range(Column(selected_products, "width_cm")))
      max_h == Max(Range(Column(selected_products, "height_cm")))
  IN IF selected_products = <<>>
       THEN Box(0, 0, 0, 0)
       ELSE Box(max_l + buffer_cm_multi, max_w + buffer_cm_multi, max_h + buffer_cm_multi,
                (max_l + buffer_cm_multi) * (max_w + buffer_cm_multi) * (max_h + buffer_cm_multi))

calculate_approximate_multi_box(product_ids) ==
  LET selected_products == isin(PRODUCTS_DF, "product_id", product_ids)
      max_l == Max(Range(Column(selected_products, "length_cm")))
      max_w == Max(Range(Column(selected_products, "width_cm")))
      sum_h == Sum(Column(selected_products, "height_cm"))
      optimal_length == max_l + buffer_cm_multi
      optimal_width == max_w + buffer_cm_multi
      optimal_height == sum_h + buffer_cm_multi
  IN IF selected_products = <<>>
       THEN Box(0, 0, 0, 0)
       ELSE Box(optimal_length, optimal_width, optimal_height,
                optimal_length * optimal_width * optimal_height)

\* variant: the strength must exceed the fragility strictly
suitable_materials_strict(product_fragility) ==
  LET Test(m) == m.strength_rating * product_fragility[2] > product_fragility[1]
  IN SelectSeq(MATERIALS_DF, Test)

\* MATERIALS_DF[MATERIALS_DF['strength_rating'] >= product_fragility]
suitable_materials(product_fragility) ==
  LET Test(m) == m.strength_rating * product_fragility[2] >= product_fragility[1]
  IN SelectSeq(MATERIALS_DF, Test)

\* the composite score of one row, times 200 * max_carbon (see "Numbers")
sustainability_score(m) ==
  LET max_carbon == Max(Range(Column(MATERIALS_DF, "carbon_footprint_per_unit_sqm")))
  IN m.recycled_content_percent * max_carbon
     + m.recyclability_score * 20 * max_carbon
     + m.biodegradability_score * 10 * max_carbon
     + (max_carbon - m.carbon_footprint_per_unit_sqm) * 40

\* variant: the carbon footprint is normalised by the largest one of the frame
assign_score_framemax(frame) ==
  LET max_carbon == Max(Range(Column(frame, "carbon_footprint_per_unit_sqm")))
      Score(m) == m.recycled_content_percent * max_carbon
                  + m.recyclability_score * 20 * max_carbon
                  + m.biodegradability_score * 10 * max_carbon
                  + (max_carbon - m.carbon_footprint_per_unit_sqm) * 40
  IN [i \in DOMAIN frame |-> frame[i] @@ ("sustainability_score" :> Score(frame[i]))]

\* frame['sustainability_score'] = ... : every row of the frame gains the column
assign_score(frame) ==
  [i \in DOMAIN frame |-> frame[i] @@ ("sustainability_score" :> sustainability_score(frame[i]))]

\* the arrangements of the rows at positions I that are sorted by score,
\* ascending or descending; rows of equal score come in either order
RECURSIVE Arrangements(_, _, _)
Arrangements(frame, I, ascending) ==
  IF I = {} THEN {<<>>}
  ELSE LET first == {i \in I : \A j \in I :
                       IF ascending
                         THEN frame[i].sustainability_score <= frame[j].sustainability_score
                         ELSE frame[i].sustainability_score >= frame[j].sustainability_score}
       IN UNION {{<<frame[i]>> \o rest : rest \in Arrangements(frame, I \ {i}, ascending)} :
                   i \in first}

\* variant: the sort is ascending
sort_values_ascending(frame) == Arrangements(frame, DOMAIN frame, TRUE)

\* frame.sort_values(by='sustainability_score', ascending=False) with the
\* default kind ('quicksort'), which is not a stable sort: every descending
\* arrangement of the rows is a possible outcome
sort_values(frame) == Arrangements(frame, DOMAIN frame, FALSE)

\* variant: the cost must be strictly below the ceiling
affordable_sustainable_materials_strict(sorted, cost_tolerance_factor) ==
  LET lowest_cost_material_cost == Min(Range(Column(sorted, "cost_per_unit_area")))
      Test(m) == m.cost_per_unit_area * 100 < lowest_cost_material_cost * cost_tolerance_factor
  IN SelectSeq(sorted, Test)

\* variant: the cost floor is the lowest cost of the whole table
affordable_sustainable_materials_tablefloor(sorted, cost_tolerance_factor) ==
  LET lowest_cost_material_cost == Min(Range(Column(MATERIALS_DF, "cost_per_unit_area")))
      Test(m) == m.cost_per_unit_area * 100 <= lowest_cost_material_cost * cost_tolerance_factor
  IN SelectSeq(sorted, Test)

\* the rows of the sorted frame within the cost tolerance (hundredths)
affordable_sustainable_materials(sorted, cost_tolerance_factor) ==
  LET lowest_cost_material_cost == Min(Range(Column(sorted, "cost_per_unit_area")))
      Test(m) == m.cost_per_unit_area * 100 <= lowest_cost_material_cost * cost_tolerance_factor
  IN SelectSeq(sorted, Test)

\* variant: the fallback takes the first row of the whole table
recommend_sustainable_material_anyrow(product_fragility, cost_tolerance_factor) ==
  LET suitable == suitable_materials(product_fragility)
      Pick(sorted) ==
        LET affordable == affordable_sustainable_materials(sorted, cost_tolerance_factor)
        IN IF affordable = <<>> THEN iloc0(assign_score(MATERIALS_DF)) ELSE iloc0(affordable)
  IN IF suitable = <<>>
       THEN {NoneVal}
       ELSE {Pick(sorted) : sorted \in sort_values(assign_score(suitable))}

\* the values a call can return: None, or the first row of a sorted frame
recommend_sustainable_material(product_fragility, cost_tolerance_factor) ==
  LET suitable == suitable_materials(product_fragility)
      Pick(sorted) ==
        LET affordable == affordable_sustainable_materials(sorted, cost_tolerance_factor)
        IN IF affordable = <<>> THEN iloc0(sorted) ELSE iloc0(affordable)
  IN IF suitable = <<>>
       THEN {NoneVal}
       ELSE {Pick(sorted) : sorted \in sort_values(assign_score(suitable))}

\* variant: the score column is written to the module-level table itself
materials_after_recommend_inplace(product_fragility) ==
  IF suitable_materials(product_fragility) = <<>> THEN MATERIALS_DF ELSE assign_score(MATERIALS_DF)

\* the module-level material table after a call: the score column is written
\* to the .copy() of the filtered rows and the sort rebinds the local name
materials_after_recommend(product_fragility) == MATERIALS_DF

Pkg(l, w, h, v, m) ==
  [kind |-> "pkg", length |-> l, width |-> w, height |-> h, volume |-> v, material |-> m]

\* dimensions in tenths of a cm (x 1.2), volume in thousandths of a cubic cm
get_mock_current_packaging(product_id) ==
  LET product == get_product_data(product_id)
      current_l == product.row.length_cm * 12
      current_w == product.row.width_cm * 12
      current_h == product.row.height_cm * 12
      current_vol == current_l * current_w * current_h
      current_material_id == product.row.current_packaging_material
      current_material == iloc0(eq(MATERIALS_DF, "material_id", current_material_id))
  IN IF product.kind = "raise" THEN product
     ELSE IF current_material.kind = "raise" THEN current_material
     ELSE Pkg(current_l, current_w, current_h, current_vol, current_material.row)

\* variant: no early return; the material is that of the first selected product
get_mock_current_multi_packaging_first(product_ids) ==
  LET selected_products == isin(PRODUCTS_DF, "product_id", product_ids)
      max_l == Max(Range(Column(selected_products, "length_cm")))
      max_w == Max(Range(Column(selected_products, "width_cm")))
      sum_h == Sum(Column(selected_products, "height_cm"))
      first == iloc0(selected_products)
      current_material == iloc0(eq(MATERIALS_DF, "material_id", first.row.current_packaging_material))
  IN IF first.kind = "raise" THEN first
     ELSE IF current_material.kind = "raise" THEN current_material
     ELSE Pkg(max_l * 15, max_w * 15, sum_h * 15,
              (max_l * 15) * (max_w * 15) * (sum_h * 15), current_material.row)

\* dimensions in tenths of a cm (x 1.5), volume in thousandths of a cubic cm
get_mock_current_multi_packaging(product_ids) ==
  LET selected_products == isin(PRODUCTS_DF, "product_id", product_ids)
      max_l == Max(Range(Column(selected_products, "length_cm")))
      max_w == Max(Range(Column(selected_products, "width_cm")))
      sum_h == Sum(Column(selected_products, "height_cm"))
      current_l == max_l * 15
      current_w == max_w * 15
      current_h == sum_h * 15
      current_vol == current_l * current_w * current_h
      current_material == iloc0(eq(MATERIALS_DF, "material_id", "cardboard_standard"))
  IN IF current_material.kind = "raise" THEN current_material
     ELSE IF selected_products = <<>> THEN Pkg(0, 0, 0, 0, current_material.row)
     ELSE Pkg(current_l, current_w, current_h, current_vol, current_material.row)

(***************************************************************************)
(* The loaded tables: product ids are unique, every material a product     *)
(* names is in the material table, and so is the standard cardboard.       *)
(***************************************************************************)
MaterialTables ==
  {t \in SeqsUpTo(MaterialPool, MaxMaterials) :
     /\ Injective(t)
     /\ \E i \in DOMAIN t : t[i].material_id = "cardboard_standard"}

ProductTables(materials) ==
  {t \in SeqsUpTo(ProductPool, MaxProducts) :
     /\ t # <<>>
     /\ Injective(t)
     /\ \A i \in DOMAIN t : \E j \in DOMAIN materials :
          materials[j].material_id = t[i].current_packaging_material}

NoCall == [op |-> "none", args |-> <<>>, ret |-> NoneVal]

Init ==
  /\ MATERIALS_DF \in MaterialTables
  /\ PRODUCTS_DF \in ProductTables(MATERIALS_DF)
  /\ call = NoCall
  /\ pc = "idle"
  /\ selected_product_ids = <<>>
  /\ cost_tolerance = 120
  /\ page_locals = <<>>
  /\ shown = {}
  /\ raised = NoneVal

(***************************************************************************)
(* Calls of the core entry points.                                         *)
(***************************************************************************)
GetProductData ==
  /\ \E product_id \in ProductIds :
       call' = [op |-> "get_product_data", args |-> <<product_id>>,
                ret |-> get_product_data(product_id)]
  /\ UNCHANGED <<PRODUCTS_DF, MATERIALS_DF, pagevars>>

OptimalSingleBox ==
  /\ \E l \in Dims, w \in Dims, h \in Dims, b \in Buffers :
       call' = [op |-> "calculate_optimal_single_box", args |-> <<l, w, h, b>>,
                ret |-> calculate_optimal_single_box(l, w, h, b)]
  /\ UNCHANGED <<PRODUCTS_DF, MATERIALS_DF, pagevars>>

ApproximateMultiBox ==
  /\ \E product_ids \in SeqsUpTo(ProductIds, MaxIds) :
       call' = [op |-> "calculate_approximate_multi_box", args |-> <<product_ids>>,
                ret |-> calculate_approximate_multi_box(product_ids)]
  /\ UNCHANGED <<PRODUCTS_DF, MATERIALS_DF, pagevars>>

RecommendMaterial ==
  /\ \E f \in Fragilities, t \in Tolerances :
       /\ \E r \in recommend_sustainable_material(f, t) :
            call' = [op |-> "recommend_sustainable_material", args |-> <<f, t>>, ret |-> r]
       /\ MATERIALS_DF' = materials_after_recommend(f)
  /\ UNCHANGED <<PRODUCTS_DF, pagevars>>

MockCurrentPackaging ==
  /\ \E product_id \in ProductIds :
       call' = [op |-> "get_mock_current_packaging", args |-> <<product_id>>,
                ret |-> get_mock_current_packaging(product_id)]
  /\ UNCHANGED <<PRODUCTS_DF, MATERIALS_DF, pagevars>>

MockCurrentMultiPackaging ==
  /\ \E product_ids \in SeqsUpTo(ProductIds, MaxIds) :
       call' = [op |-> "get_mock_current_multi_packaging", args |-> <<product_ids>>,
                ret |-> get_mock_current_multi_packaging(product_ids)]
  /\ UNCHANGED <<PRODUCTS_DF, MATERIALS_DF, pagevars>>

Next ==
  \/ GetProductData
  \/ OptimalSingleBox
  \/ ApproximateMultiBox
  \/ RecommendMaterial
  \/ MockCurrentPackaging
  \/ MockCurrentMultiPackaging

Spec == Init /\ [][Next]_vars

(***************************************************************************)
(* app.py: one run of the page script, top to bottom.  page_locals is the  *)
(* script's namespace of the run: its domain is the set of names assigned  *)
(* so far, and reading a name outside it raises NameError, which ends the  *)
(* run.  Fractions are kept exact as pairs <<num, den>>.                   *)
(***************************************************************************)
Bind(locals, name, value) == (name :> value) @@ locals

\* lines 34-59: the sidebar widgets of a fresh run
PageStart ==
  /\ pc \in {"idle", "done", "error"}
  /\ \E selected_products_names \in SUBSET Range(Column(PRODUCTS_DF, "name")),
        slider \in SliderTolerances :
       /\ selected_product_ids' =
            Column(LET Test(r) == r.name \in selected_products_names
                   IN SelectSeq(PRODUCTS_DF, Test), "product_id")
       /\ cost_tolerance' = slider
  /\ page_locals' = <<>>
  /\ shown' = {}
  /\ raised' = NoneVal
  /\ pc' = "main"
  /\ UNCHANGED <<PRODUCTS_DF, MATERIALS_DF, call>>

\* lines 63-69: nothing selected
PageNoSelection ==
  /\ pc = "main"
  /\ selected_product_ids = <<>>
  /\ shown' = shown \cup {"info_select_products"}
  /\ pc' = "done"
  /\ UNCHANGED <<PRODUCTS_DF, MATERIALS_DF, call, selected_product_ids, cost_tolerance,
                 page_locals, raised>>

\* ((current - optimal) / current) * 100 with the current volume in
\* thousandths of a cubic cm: the fraction, to be read times 100
VolumeReduction(current_pkg, opt_vol) ==
  IF current_pkg.volume > 0
    THEN <<current_pkg.volume - 1000 * opt_vol, current_pkg.volume>>
    ELSE <<0, 1>>

\* lines 71-154: order overview and right-sizing
PageSizing ==
  /\ pc = "main"
  /\ selected_product_ids # <<>>
  /\ LET selected_products_df_display == isin(PRODUCTS_DF, "product_id", selected_product_ids)
         single == Len(selected_product_ids) = 1
         product_id == selected_product_ids[1]
         product == get_product_data(product_id)
         opt == IF single
                  THEN calculate_optimal_single_box(product.row.length_cm, product.row.width_cm,
                                                    product.row.height_cm, 1)
                  ELSE calculate_approximate_multi_box(selected_product_ids)
         current_pkg == IF single
                          THEN get_mock_current_packaging(product_id)
                          ELSE get_mock_current_multi_packaging(selected_product_ids)
         failure == IF single /\ product.kind = "raise" THEN product
                    ELSE IF current_pkg.kind = "raise" THEN current_pkg
                    ELSE NoneVal
     IN IF failure # NoneVal
          THEN /\ raised' = failure
               /\ pc' = "error"
               /\ UNCHANGED page_locals
          ELSE /\ page_locals' =
                    Bind(Bind(Bind(Bind(Bind(page_locals,
                      "selected_products_df_display", selected_products_df_display),
                      "optimal_box_info", [L |-> opt.length, W |-> opt.width, H |-> opt.height,
                                           Volume |-> opt.volume]),
                      "current_pkg", current_pkg),
                      "current_box_info", [L |-> current_pkg.length, W |-> current_pkg.width,
                                           H |-> current_pkg.height, Volume |-> current_pkg.volume]),
                      "volume_reduction_percent", VolumeReduction(current_pkg, opt.volume))
               /\ pc' = "recommend"
               /\ UNCHANGED raised
  /\ shown' = shown \cup {"order_overview"}
  /\ UNCHANGED <<PRODUCTS_DF, MATERIALS_DF, call, selected_product_ids, cost_tolerance>>

\* lines 158-281: the material recommendation and its comparison
PageRecommend ==
  /\ pc = "recommend"
  /\ LET display == page_locals["selected_products_df_display"]
         avg_fragility == IF display # <<>>
                            THEN <<Sum(Column(display, "fragility_score")), Len(display)>>
                            ELSE <<1, 1>>
     IN /\ MATERIALS_DF' = materials_after_recommend(avg_fragility)
        /\ \E recommended_material \in recommend_sustainable_material(avg_fragility, cost_tolerance) :
          LET with_rec == Bind(Bind(page_locals, "avg_fragility", avg_fragility),
                               "recommended_material", recommended_material)
              current_material_data == page_locals["current_pkg"].material
              carbon_reduction_per_sqm ==
                current_material_data.carbon_footprint_per_unit_sqm
                  - recommended_material.row.carbon_footprint_per_unit_sqm
              carbon_reduction_percent ==
                IF current_material_data.carbon_footprint_per_unit_sqm > 0
                  THEN <<carbon_reduction_per_sqm * 100,
                         current_material_data.carbon_footprint_per_unit_sqm>>
                  ELSE <<0, 1>>
              recycled_content_increase ==
                recommended_material.row.recycled_content_percent
                  - current_material_data.recycled_content_percent
          IN IF recommended_material # NoneVal
               THEN /\ page_locals' =
                         Bind(Bind(Bind(Bind(with_rec,
                           "current_material_data", current_material_data),
                           "carbon_reduction_per_sqm", carbon_reduction_per_sqm),
                           "carbon_reduction_percent", carbon_reduction_percent),
                           "recycled_content_increase", recycled_content_increase)
                    /\ shown' = shown \cup {"recommended_material", "impact_comparison"}
               ELSE /\ page_locals' = with_rec
                    /\ shown' = shown \cup {"warning_no_recommendation"}
  /\ pc' = "impact"
  /\ UNCHANGED <<PRODUCTS_DF, call, selected_product_ids, cost_tolerance, raised>>

\* lines 283-304: the per-order impact
PageImpact ==
  /\ pc = "impact"
  /\ LET volume_reduction_percent == page_locals["volume_reduction_percent"]
         weight_sum == Sum(Column(page_locals["selected_products_df_display"], "weight_kg"))
         \* (volume_reduction_percent / 100) * 0.5 * weight_sum
         estimated_shipping_cost_savings ==
           <<volume_reduction_percent[1] * weight_sum, volume_reduction_percent[2] * 2>>
     IN page_locals' = Bind(page_locals, "estimated_shipping_cost_savings",
                            estimated_shipping_cost_savings)
  /\ shown' = shown \cup {"volume_reduction_metric",
                          IF "carbon_reduction_percent" \in DOMAIN page_locals
                            THEN "carbon_reduction_metric"
                            ELSE "carbon_reduction_not_available"}
  /\ pc' = "projection"
  /\ UNCHANGED <<PRODUCTS_DF, MATERIALS_DF, call, selected_product_ids, cost_tolerance, raised>>

daily_packages_processed == 500000

\* lines 306-331: the annual projection; the two annual figures are kept as
\* the coefficient of annual_packages_processed
PageProjection ==
  /\ pc = "projection"
  /\ LET annual_packages_processed == daily_packages_processed * 365
         current_box_info == page_locals["current_box_info"]
         optimal_box_info == page_locals["optimal_box_info"]
         avg_vol_savings_per_pkg ==
           IF current_box_info.Volume > 1000 * optimal_box_info.Volume
             THEN current_box_info.Volume - 1000 * optimal_box_info.Volume
             ELSE 0
         \* (L/100 * W/100) * 6, in square cm
         avg_box_surface_area_sqm == optimal_box_info.L * optimal_box_info.W * 6
         with_area ==
           Bind(Bind(Bind(Bind(page_locals,
             "annual_packages_processed", annual_packages_processed),
             "avg_vol_savings_per_pkg", avg_vol_savings_per_pkg),
             "annual_shipping_cost_savings", avg_vol_savings_per_pkg),
             "avg_box_surface_area_sqm", avg_box_surface_area_sqm)
     IN IF "carbon_reduction_per_sqm" \in DOMAIN page_locals
          THEN /\ page_locals' =
                    Bind(with_area, "annual_carbon_savings_per_material_switch",
                         page_locals["carbon_reduction_per_sqm"] * avg_box_surface_area_sqm)
               /\ shown' = shown \cup {"annual_projection"}
               /\ pc' = "strategic"
               /\ UNCHANGED raised
          ELSE /\ page_locals' = with_area
               /\ raised' = NameError
               /\ pc' = "error"
               /\ UNCHANGED shown
  /\ UNCHANGED <<PRODUCTS_DF, MATERIALS_DF, call, selected_product_ids, cost_tolerance>>

\* lines 333-343: the closing section, the end of the page
PageStrategic ==
  /\ pc = "strategic"
  /\ shown' = shown \cup {"strategic_impact"}
  /\ pc' = "done"
  /\ UNCHANGED <<PRODUCTS_DF, MATERIALS_DF, call, selected_product_ids, cost_tolerance,
                 page_locals, raised>>

PageNext ==
  \/ PageStart
  \/ PageNoSelection
  \/ PageSizing
  \/ PageRecommend
  \/ PageImpact
  \/ PageProjection
  \/ PageStrategic

PageSpec == Init /\ [][PageNext]_vars

(***************************************************************************)
(* Properties.  They describe the tables directly, by sets of row          *)
(* positions, and do not reuse the operators of the calls.                 *)
(***************************************************************************)
IsRecommend == call.op = "recommend_sustainable_material"

\* the positions of the material rows strong enough for fragility f
Strong(f) == {i \in DOMAIN MATERIALS_DF : MATERIALS_DF[i].strength_rating * f[2] >= f[1]}

\* a returned row without its score column
TableColumns(r) == [c \in DOMAIN r \ {"sustainability_score"} |-> r[c]]

\* the positions of the material rows a returned row can come from
Origin(r) == {i \in DOMAIN MATERIALS_DF : MATERIALS_DF[i] = TableColumns(r)}

\* the positions of the product rows an identifier list resolves to
Members(product_ids) ==
  {i \in DOMAIN PRODUCTS_DF : \E k \in DOMAIN product_ids : product_ids[k] = PRODUCTS_DF[i].product_id}

RECURSIVE HeightSum(_)
HeightSum(I) ==
  IF I = {} THEN 0
  ELSE LET i == CHOOSE k \in I : TRUE IN PRODUCTS_DF[i].height_cm + HeightSum(I \ {i})

\* C1: recommend_sustainable_material returns None exactly when no row of the
\* material table has strength_rating >= fragility, and otherwise returns a
\* row of the material table.
C1_NoneIffNothingSuitable ==
  IsRecommend =>
    /\ (call.ret = NoneVal <=> Strong(call.args[1]) = {})
    /\ (Strong(call.args[1]) # {} => call.ret.kind = "row" /\ Origin(call.ret.row) # {})

C1_Witness ==
  /\ IsRecommend
  /\ call.ret = NoneVal
  /\ Len(MATERIALS_DF) >= 2

\* C2: a material returned by recommend_sustainable_material has
\* strength_rating >= fragility, on the affordable branch and on the
\* cost-ignoring fallback branch alike.
C2_ReturnedIsStrongEnough ==
  (IsRecommend /\ call.ret.kind = "row") =>
    call.ret.row.strength_rating * call.args[1][2] >= call.args[1][1]

\* the fallback branch was taken (no suitable row within the ceiling) while
\* the table also holds a row that is too weak
C2_Witness ==
  /\ IsRecommend
  /\ call.ret.kind = "row"
  /\ \A i \in Strong(call.args[1]) : \E j \in Strong(call.args[1]) :
       MATERIALS_DF[i].cost_per_unit_area * 100 > MATERIALS_DF[j].cost_per_unit_area * call.args[2]
  /\ Strong(call.args[1]) # DOMAIN MATERIALS_DF

\* the score of whatever a call with tolerance t2 can return is at least the
\* score of the row the last call returned
NotBelowLast(t2) ==
  \A r2 \in recommend_sustainable_material(call.args[1], t2) :
    r2.kind = "row" /\ r2.row.sustainability_score >= call.ret.row.sustainability_score

\* C3 as stated: for any tolerances t1 <= t2 and a fixed fragility, the score
\* of the material returned for t2 is >= the score of the one returned for t1.
C3_MonotoneForAnyTolerance ==
  (IsRecommend /\ call.ret.kind = "row") =>
    \A t2 \in Tolerances : call.args[2] <= t2 => NotBelowLast(t2)

\* C3 amended: the same for tolerances 1.0 <= t1 <= t2.
C3_MonotoneFromOne ==
  (IsRecommend /\ call.ret.kind = "row" /\ call.args[2] >= 100) =>
    \A t2 \in Tolerances : call.args[2] <= t2 => NotBelowLast(t2)

\* tolerance 1.2 kept out a row costing 1.25 x the cheapest, which 1.3 lets in
\* and which scores higher
C3_Witness ==
  /\ IsRecommend
  /\ call.ret.kind = "row"
  /\ call.args[2] = 120
  /\ \E r2 \in recommend_sustainable_material(call.args[1], 130) :
       /\ r2.row.sustainability_score > call.ret.row.sustainability_score
       /\ r2.row.cost_per_unit_area * 100 = call.ret.row.cost_per_unit_area * 125

\* the positions of the suitable rows within the cost ceiling of tolerance t
Affordable(f, t) ==
  {i \in Strong(f) : \A j \in Strong(f) :
     MATERIALS_DF[i].cost_per_unit_area * 100 <= MATERIALS_DF[j].cost_per_unit_area * t}

Candidates(f, t) == IF Affordable(f, t) # {} THEN Affordable(f, t) ELSE Strong(f)

\* C4: with a suitable material, the call returns a highest-scoring row among
\* the suitable rows costing <= (lowest suitable cost) x tolerance when there
\* are any, and a highest-scoring suitable row otherwise.
C4_BestOfAffordableElseBestSuitable ==
  (IsRecommend /\ Strong(call.args[1]) # {}) =>
    /\ call.ret.kind = "row"
    /\ Origin(call.ret.row) \cap Candidates(call.args[1], call.args[2]) # {}
    /\ \A i \in Candidates(call.args[1], call.args[2]) :
         call.ret.row.sustainability_score >= sustainability_score(MATERIALS_DF[i])

\* the ceiling kept out a suitable row that scores higher than the returned one
C4_Witness ==
  /\ IsRecommend
  /\ call.ret.kind = "row"
  /\ Affordable(call.args[1], call.args[2]) # {}
  /\ \E i \in Strong(call.args[1]) \ Affordable(call.args[1], call.args[2]) :
       sustainability_score(MATERIALS_DF[i]) > call.ret.row.sustainability_score

\* the run got None from the recommender
RecommendedNone ==
  /\ "recommended_material" \in DOMAIN page_locals
  /\ page_locals["recommended_material"] = NoneVal

\* C5: a page run in which the recommender returned None tells the user that
\* no recommendation is available and reaches the end of the page without
\* raising: it never stops on an error.
C5_NoneRunCompletes ==
  RecommendedNone =>
    /\ "warning_no_recommendation" \in shown
    /\ pc # "error"
    /\ raised = NoneVal

\* C6: for identifiers resolving to at least one product row the multi box is
\* (max length + 2, max width + 2, sum of heights + 2) with their product as
\* volume; for identifiers resolving to no row it is (0, 0, 0, 0).
C6_MultiBoxIsMaxMaxSumPlusBuffer ==
  call.op = "calculate_approximate_multi_box" =>
    LET I == Members(call.args[1])
    IN IF I = {}
         THEN call.ret = Box(0, 0, 0, 0)
         ELSE /\ call.ret.kind = "box"
              /\ \E i \in I : call.ret.length = PRODUCTS_DF[i].length_cm + 2
              /\ \A i \in I : call.ret.length >= PRODUCTS_DF[i].length_cm + 2
              /\ \E i \in I : call.ret.width = PRODUCTS_DF[i].width_cm + 2
              /\ \A i \in I : call.ret.width >= PRODUCTS_DF[i].width_cm + 2
              /\ call.ret.height = HeightSum(I) + 2
              /\ call.ret.volume = call.ret.length * call.ret.width * call.ret.height

\* two products stacked, one of them named twice and one identifier unknown
C6_Witness ==
  /\ call.op = "calculate_approximate_multi_box"
  /\ Cardinality(Members(call.args[1])) = 2
  /\ call.ret.height = 42

\* C7: the single box of (l, w, h) with buffer b >= 0 is (l+b, w+b, h+b) with
\* their product as volume; (10, 10, 10) with buffer 1 gives (11, 11, 11, 1331).
C7_SingleBoxAddsBuffer ==
  /\ call.op = "calculate_optimal_single_box" =>
       LET l == call.args[1] + call.args[4]
           w == call.args[2] + call.args[4]
           h == call.args[3] + call.args[4]
       IN call.ret = [kind |-> "box", length |-> l, width |-> w, height |-> h, volume |-> l * w * h]
  /\ (call.op = "calculate_optimal_single_box" /\ call.args = <<10, 10, 10, 1>>) =>
       call.ret = [kind |-> "box", length |-> 11, width |-> 11, height |-> 11, volume |-> 1331]

C7_Witness ==
  /\ call.op = "calculate_optimal_single_box"
  /\ call.args = <<10, 10, 10, 1>>
  /\ call.ret.volume = 1331

\* C8: the multi-item baseline never fails with a lookup error and always
\* carries the standard cardboard; its box is the zero box when the
\* identifiers resolve to no row, and otherwise 1.5 x (max length, max width,
\* sum of heights) with the product of the three as volume (tenths of a cm).
C8_MultiBaselineIsCardboard ==
  call.op = "get_mock_current_multi_packaging" =>
    LET I == Members(call.args[1])
    IN /\ call.ret.kind = "pkg"
       /\ call.ret.material.material_id = "cardboard_standard"
       /\ I = {} => /\ call.ret.length = 0
                    /\ call.ret.width = 0
                    /\ call.ret.height = 0
                    /\ call.ret.volume = 0
       /\ I # {} => /\ \E i \in I : call.ret.length = 15 * PRODUCTS_DF[i].length_cm
                    /\ \A i \in I : call.ret.length >= 15 * PRODUCTS_DF[i].length_cm
                    /\ \E i \in I : call.ret.width = 15 * PRODUCTS_DF[i].width_cm
                    /\ \A i \in I : call.ret.width >= 15 * PRODUCTS_DF[i].width_cm
                    /\ call.ret.height = 15 * HeightSum(I)
                    /\ call.ret.volume = call.ret.length * call.ret.width * call.ret.height

\* the empty identifier list gave the zero box with the standard cardboard
C8_Witness ==
  /\ call.op = "get_mock_current_multi_packaging"
  /\ call.args[1] = <<>>
  /\ call.ret.kind = "pkg"
  /\ call.ret.volume = 0
  /\ call.ret.material.material_id = "cardboard_standard"

\* C9: no call of a core entry point changes the product table or the
\* material table: the material table gains no score column and keeps its
\* order, so every call works on the tables as loaded.
C9_TablesNeverChange ==
  [][MATERIALS_DF' = MATERIALS_DF /\ PRODUCTS_DF' = PRODUCTS_DF]_vars

\* a recommendation was made among several scored rows, and the table has no
\* score column
C9_Witness ==
  /\ IsRecommend
  /\ call.ret.kind = "row"
  /\ "sustainability_score" \in DOMAIN call.ret.row
  /\ Cardinality(Strong(call.args[1])) >= 2
  /\ \A i \in DOMAIN MATERIALS_DF : "sustainability_score" \notin DOMAIN MATERIALS_DF[i]

\* C10: get_product_data and get_mock_current_packaging fail with a lookup
\* error for an identifier that is not in the product table; they return no
\* product, row or box for it.
C10_UnknownProductRaises ==
  (/\ call.op \in {"get_product_data", "get_mock_current_packaging"}
   /\ \A i \in DOMAIN PRODUCTS_DF : PRODUCTS_DF[i].product_id # call.args[1]) =>
    call.ret = [kind |-> "raise", exc |-> "IndexError"]

C10_Witness ==
  /\ call.op = "get_mock_current_packaging"
  /\ \A i \in DOMAIN PRODUCTS_DF : PRODUCTS_DF[i].product_id # call.args[1]
  /\ call.ret = [kind |-> "raise", exc |-> "IndexError"]

\* the scored frame the recommender builds for fragility f
Scored(f) == assign_score(suitable_materials(f))

\* C11: the score of a material does not depend on which rows passed the
\* suitability filter: under any two fragilities that leave it suitable it
\* gets the same score (so two materials suitable under both keep their
\* relative order), and that is the score of the row a call returns.
C11_ScoreIndependentOfFilter ==
  (IsRecommend /\ call.ret.kind = "row") =>
    /\ \E i \in DOMAIN Scored(call.args[1]) : Scored(call.args[1])[i] = call.ret.row
    /\ \A f2 \in Fragilities :
         \A i \in DOMAIN Scored(call.args[1]), j \in DOMAIN Scored(f2) :
           TableColumns(Scored(call.args[1])[i]) = TableColumns(Scored(f2)[j]) =>
             Scored(call.args[1])[i].sustainability_score = Scored(f2)[j].sustainability_score

\* the filter of the call kept out the row with the largest carbon footprint
\* of the table, which a lower fragility lets in
C11_Witness ==
  /\ IsRecommend
  /\ call.ret.kind = "row"
  /\ \E i \in DOMAIN MATERIALS_DF \ Strong(call.args[1]) :
       /\ \A j \in Strong(call.args[1]) :
            MATERIALS_DF[i].carbon_footprint_per_unit_sqm
              > MATERIALS_DF[j].carbon_footprint_per_unit_sqm
       /\ \E f2 \in Fragilities : i \in Strong(f2)

\* the candidate positions whose rows score highest
TopCandidates(f, t) ==
  {i \in Candidates(f, t) : \A j \in Candidates(f, t) :
     sustainability_score(MATERIALS_DF[i]) >= sustainability_score(MATERIALS_DF[j])}

\* C12: among candidates of equal top score the call returns the one that
\* comes first in the material table, on the affordable branch and on the
\* fallback branch.
C12_TiesGoToEarliestRow ==
  (IsRecommend /\ call.ret.kind = "row") =>
    Origin(call.ret.row) = {Min(TopCandidates(call.args[1], call.args[2]))}

\* the affordable frames the call can build, one per outcome of the sort
AffordableFrames(f, t) ==
  {affordable_sustainable_materials(sorted, t) : sorted \in sort_values(Scored(f))}

\* C13: with positive costs and a tolerance >= 1.0 the affordable frame is
\* never empty, since it holds a cheapest suitable row; the fallback branch is
\* then not taken and the returned row costs <= (lowest suitable cost) x
\* tolerance.  The fallback branch is taken only for a tolerance < 1.0.
C13_NoFallbackFromOne ==
  (IsRecommend /\ call.ret.kind = "row") =>
    /\ call.args[2] >= 100 =>
         /\ \A affordable \in AffordableFrames(call.args[1], call.args[2]) :
              \E k \in DOMAIN affordable : \A i \in Strong(call.args[1]) :
                affordable[k].cost_per_unit_area <= MATERIALS_DF[i].cost_per_unit_area
         /\ \A i \in Strong(call.args[1]) :
              call.ret.row.cost_per_unit_area * 100
                <= MATERIALS_DF[i].cost_per_unit_area * call.args[2]
    /\ <<>> \in AffordableFrames(call.args[1], call.args[2]) => call.args[2] < 100

\* tolerance 1.0 returned the cheapest suitable row although a suitable row
\* of higher score, which the fallback would have returned, costs more
C13_Witness ==
  /\ IsRecommend
  /\ call.ret.kind = "row"
  /\ call.args[2] = 100
  /\ \E i \in Strong(call.args[1]) :
       /\ sustainability_score(MATERIALS_DF[i]) > call.ret.row.sustainability_score
       /\ MATERIALS_DF[i].cost_per_unit_area > call.ret.row.cost_per_unit_area

====
